---- MODULE Spec2Model ----
(***************************************************************************)
(* Model of the plugin supervisor (package plugin, type Plugin) and of its *)
(* three long-lived tasks Wait, Receive and Task, together with the        *)
(* external entry points Shutdown, SendTask and GetState.                  *)
(***************************************************************************)
EXTENDS Integers, Sequences, FiniteSets, TLC

\* ---- bounds of the model ----
MaxCallers == 2      \* number of Shutdown() callers, each calling once
MaxSends == 2        \* number of SendTask() calls
MaxFrames == 2       \* number of record frames the plugin writes
MaxElapsed == 2      \* seconds that pass between two readings of the clock
MaxSamples == 2      \* number of GetState() calls
MaxPeek == 2         \* size in bytes of the plugin-side bufio.Reader (Peek serves no more)
MaxBuffered == 6     \* size in bytes of the plugin-side bufio.Writer

Callers == 1..MaxCallers
Ends == {"rx", "tx"}
CtrNames == {"rxBytes", "rxCnt", "txBytes", "txCnt"}

\* inputs: Size() of a task, payload length of a record frame
TaskSizes == {0, 6}
PayloadLens == {0, 1000, 200000}

\* bytes a payload is made of, and the payloads the byte-level model of the
\* framed protocol sends: every length up to one more than the reader's buffer
PayloadBytes == {1, 2}
Payloads == UNION {[1..n -> PayloadBytes] : n \in 0..(MaxPeek + 1)}

VARIABLES
    responsive,   \* TRUE: the child may exit on its own; FALSE: only SIGKILL ends it
    childState,   \* "live" | "exited"  (the OS process)
    killSent,     \* a SIGKILL to the process group is pending or was delivered
    processState, \* cmd.ProcessState # nil
    waitPc,       \* position of the Wait() task
    pipeOpen,     \* [Ends -> BOOLEAN] the supervisor-owned pipe ends p.rx / p.tx
    closeCalls,   \* [Ends -> Nat] number of Close() calls performed on each end
    done,         \* p.done is closed
    doneFiredBy,  \* sequence of the functions that executed close(p.done)
    mu,           \* holder of p.mu, 0 when free
    sdPc,         \* [Callers -> position inside Shutdown()]
    sdInfo,       \* [Callers -> what the call saw on entry and did]
    killLog       \* sequence of the SIGKILLs sent, with the state they were sent in

VARIABLES
    taskPc,       \* position of the Task() loop
    taskInHand,   \* the task received from p.taskCh, 0 when none
    nextTask,     \* number of SendTask() calls made so far
    sendLog,      \* one record per SendTask() call: its result and the state it ran in
    txPipe,       \* task frames written to the agent->plugin pipe, in write order
    taskExit      \* why the Task() loop returned

VARIABLES
    recvPc,       \* position of the Receive() loop
    nextFrame,    \* number of frames the plugin has written
    rxPipe,       \* frames in the plugin->agent pipe, not yet read by p.reader
    readerBuf,    \* frames held in the bufio.Reader p.reader
    recInHand,    \* the record decoded by receiveDataWithSize
    sink          \* records handed to transport.DTransfer.Transmission, in order

VARIABLES
    ctr,          \* the four counters rxBytes, rxCnt, txBytes, txCnt
    now,          \* the last reading of the wall clock, in seconds
    updateTime,   \* p.updateTime
    samples,      \* number of GetState() calls made so far
    lastGS,       \* what the last GetState() call saw, did and returned
    recvSince,    \* payload bytes of the frames decoded since the counters were last reset
    quiet         \* no frame was counted since the last GetState() call

VARIABLES
    writeErrs,    \* the errors p.tx.Write returned to the Task() loop, in order
    wrote,        \* the frames the plugin has written, in order
    rxCut,        \* the plugin->agent stream ends with the first part of a frame
    atDone        \* what the counters, the sink, the pipes and the loops held when p.done was closed

VARIABLES
    cIn,          \* agent->plugin stream: the bytes the plugin has not consumed yet
    tSent,        \* the payloads of the task frames written to that stream, in order
    cLog,         \* one record per ReceiveTask() call that got a length prefix
    wpc,          \* [Callers -> position] of the plugin-side callers in the Client
    wmu,          \* holder of c.wmu, 0: free
    wMsg,         \* [Callers -> payload] the record a SendRecord() call is writing
    cOut,         \* bytes held by c.writer
    wire,         \* plugin->agent stream: every byte that has reached the pipe
    supPos,       \* number of bytes of wire the supervisor has read
    rSent,        \* the payloads of the records given to SendRecord(), in lock order
    supGot,       \* what the supervisor decoded from wire, in order
    raced,        \* a Close() ran c.writer.Flush() while another caller was in c.writer
    txShut,       \* Close() has closed the plugin's write end
    wErr          \* c.writer has met a write error: it accepts and writes nothing more

childVars == <<responsive, childState, killSent>>
waitVars == <<processState, waitPc>>
pipeVars == <<pipeOpen, closeCalls>>
doneVars == <<done, doneFiredBy>>
sdVars == <<mu, sdPc, sdInfo, killLog>>
taskVars == <<taskPc, taskInHand, nextTask, sendLog, txPipe, taskExit>>
recvVars == <<recvPc, nextFrame, rxPipe, readerBuf, recInHand, sink>>
statVars == <<ctr, now, updateTime, samples, lastGS, recvSince, quiet>>

peerVars == <<cIn, tSent, cLog, wpc, wmu, wMsg, cOut, wire, supPos, rSent, supGot, raced,
              txShut, wErr>>

moreVars == <<writeErrs, wrote, rxCut, atDone, peerVars>>

\* everything but the byte-level model of the two streams
hostVars == <<childVars, waitVars, pipeVars, doneVars, sdVars, taskVars, recvVars, statVars,
              writeErrs, wrote, rxCut, atDone>>

vars == <<childVars, waitVars, pipeVars, doneVars, sdVars, taskVars, recvVars, statVars,
          moreVars>>

\* ---- helpers ----

\* os.File.Close on one owned end: the call is counted, the end is closed.
Close(e) ==
    /\ closeCalls' = [closeCalls EXCEPT ![e] = @ + 1]
    /\ pipeOpen' = [pipeOpen EXCEPT ![e] = FALSE]

\* cmd.Wait has returned from Process.Wait (the child is reaped).
Reaped == waitPc # "cmdWait"

\* mutant of IsExited: the exit recorded by cmd.Wait is never seen
IsExited_never == FALSE

\* func (p *Plugin) IsExited() bool { return p.cmd.ProcessState != nil }
IsExited == processState

\* ---- the child process ----

ChildExitNatural ==
    /\ childState = "live"
    /\ responsive
    /\ childState' = "exited"
    /\ UNCHANGED <<responsive, killSent, processState, waitPc, pipeOpen, closeCalls,
                   done, doneFiredBy, mu, sdPc, sdInfo, killLog, taskVars, recvVars, statVars>>
    /\ UNCHANGED moreVars

ChildExitKilled ==
    /\ childState = "live"
    /\ killSent
    /\ childState' = "exited"
    /\ UNCHANGED <<responsive, killSent, processState, waitPc, pipeOpen, closeCalls,
                   done, doneFiredBy, mu, sdPc, sdInfo, killLog, taskVars, recvVars, statVars>>
    /\ UNCHANGED moreVars

\* the child exits (on its own or killed) while it is writing a frame: the
\* stream ends with the first part of that frame
ChildExitMidFrame ==
    /\ childState = "live"
    /\ responsive \/ killSent
    /\ pipeOpen["rx"]
    /\ childState' = "exited"
    /\ rxCut' = TRUE
    /\ UNCHANGED <<responsive, killSent, waitVars, pipeVars, doneVars, sdVars,
                   taskVars, recvVars, statVars, writeErrs, wrote, atDone, peerVars>>

\* ---- Wait() ----

\* mutant of WaitCmdWait: Wait() goes on without waiting for the child's exit
WaitCmdWait_noWait ==
    /\ waitPc = "cmdWait"
    /\ waitPc' = "setState"
    /\ UNCHANGED <<childVars, processState, pipeVars, doneVars, sdVars,
                   taskVars, recvVars, statVars>>
    /\ UNCHANGED moreVars

\* p.cmd.Wait(): Process.Wait returns once the child has exited ...
WaitCmdWait ==
    /\ waitPc = "cmdWait"
    /\ childState = "exited"
    /\ waitPc' = "setState"
    /\ UNCHANGED <<responsive, childState, killSent, processState, pipeOpen,
                   closeCalls, done, doneFiredBy, mu, sdPc, sdInfo, killLog, taskVars, recvVars, statVars>>
    /\ UNCHANGED moreVars

\* ... and then stores cmd.ProcessState (read without synchronisation by IsExited).
WaitSetState ==
    /\ waitPc = "setState"
    /\ processState' = TRUE
    /\ waitPc' = "closeRx"
    /\ UNCHANGED <<responsive, childState, killSent, pipeOpen, closeCalls, done,
                   doneFiredBy, mu, sdPc, sdInfo, killLog, taskVars, recvVars, statVars>>
    /\ UNCHANGED moreVars

\* mutant of WaitCloseRx: the read end stays open
WaitCloseRx_leavesOpen ==
    /\ waitPc = "closeRx"
    /\ waitPc' = "closeTx"
    /\ UNCHANGED <<responsive, childState, killSent, processState, pipeOpen, closeCalls,
                   done, doneFiredBy, mu, sdPc, sdInfo, killLog, taskVars, recvVars,
                   statVars>>
    /\ UNCHANGED moreVars

WaitCloseRx ==
    /\ waitPc = "closeRx"
    /\ Close("rx")
    /\ waitPc' = "closeTx"
    /\ UNCHANGED <<responsive, childState, killSent, processState, done,
                   doneFiredBy, mu, sdPc, sdInfo, killLog, taskVars, recvVars, statVars>>
    /\ UNCHANGED moreVars

WaitCloseTx ==
    /\ waitPc = "closeTx"
    /\ Close("tx")
    /\ waitPc' = "closeDone"
    /\ UNCHANGED <<responsive, childState, killSent, processState, done,
                   doneFiredBy, mu, sdPc, sdInfo, killLog, taskVars, recvVars, statVars>>
    /\ UNCHANGED moreVars

WaitCloseDone ==
    /\ waitPc = "closeDone"
    /\ done' = TRUE
    /\ doneFiredBy' = Append(doneFiredBy, "Wait")
    /\ waitPc' = "returned"
    /\ atDone' = [ctr |-> ctr, sink |-> Len(sink), tx |-> Len(txPipe), rx |-> rxPipe,
                  held |-> {readerBuf[i].id : i \in 1..Len(readerBuf)}
                           \cup (IF recInHand.id = 0 THEN {} ELSE {recInHand.id}),
                  taskPc |-> taskPc]
    /\ UNCHANGED <<responsive, childState, killSent, processState, pipeOpen,
                   closeCalls, mu, sdPc, sdInfo, killLog, taskVars, recvVars, statVars>>
    /\ UNCHANGED <<writeErrs, wrote, rxCut, peerVars>>

\* ---- Shutdown() ----

ShutdownCall(s) ==
    /\ sdPc[s] = "idle"
    /\ sdPc' = [sdPc EXCEPT ![s] = "lock"]
    /\ sdInfo' = [sdInfo EXCEPT ![s].exitedAtCall = (childState = "exited"),
                                ![s].recordedAtCall = processState]
    /\ UNCHANGED <<responsive, childState, killSent, processState, waitPc, pipeOpen,
                   closeCalls, done, doneFiredBy, mu, killLog, taskVars, recvVars, statVars>>
    /\ UNCHANGED moreVars

\* mutant of ShutdownLock: Shutdown proceeds without holding p.mu
ShutdownLock_noMutex(s) ==
    /\ sdPc[s] = "lock"
    /\ mu' = s
    /\ sdPc' = [sdPc EXCEPT ![s] = "check"]
    /\ UNCHANGED <<childVars, waitVars, pipeVars, doneVars, sdInfo, killLog,
                   taskVars, recvVars, statVars>>
    /\ UNCHANGED moreVars

\* p.mu.Lock()
ShutdownLock(s) ==
    /\ sdPc[s] = "lock"
    /\ mu = 0
    /\ mu' = s
    /\ sdPc' = [sdPc EXCEPT ![s] = "check"]
    /\ UNCHANGED <<responsive, childState, killSent, processState, waitPc, pipeOpen,
                   closeCalls, done, doneFiredBy, sdInfo, killLog, taskVars, recvVars, statVars>>
    /\ UNCHANGED moreVars

\* mutant of ShutdownCheck: the early return leaves p.mu locked (no deferred Unlock)
ShutdownCheck_keepsLock(s) ==
    /\ sdPc[s] = "check"
    /\ IF IsExited
         THEN sdPc' = [sdPc EXCEPT ![s] = "returned"]
         ELSE sdPc' = [sdPc EXCEPT ![s] = "closeTx"]
    /\ UNCHANGED <<childVars, waitVars, pipeVars, doneVars, mu, sdInfo, killLog,
                   taskVars, recvVars, statVars>>
    /\ UNCHANGED moreVars

\* if p.IsExited() { return }, with the deferred p.mu.Unlock()
ShutdownCheck(s) ==
    /\ sdPc[s] = "check"
    /\ IF IsExited
         THEN /\ sdPc' = [sdPc EXCEPT ![s] = "returned"]
              /\ mu' = 0
         ELSE /\ sdPc' = [sdPc EXCEPT ![s] = "closeTx"]
              /\ mu' = mu
    /\ UNCHANGED <<responsive, childState, killSent, processState, waitPc, pipeOpen,
                   closeCalls, done, doneFiredBy, sdInfo, killLog, taskVars, recvVars, statVars>>
    /\ UNCHANGED moreVars

ShutdownCloseTx(s) ==
    /\ sdPc[s] = "closeTx"
    /\ Close("tx")
    /\ sdPc' = [sdPc EXCEPT ![s] = "closeRx"]
    /\ sdInfo' = [sdInfo EXCEPT ![s].closes = @ + 1]
    /\ UNCHANGED <<responsive, childState, killSent, processState, waitPc, done,
                   doneFiredBy, mu, killLog, taskVars, recvVars, statVars>>
    /\ UNCHANGED moreVars

ShutdownCloseRx(s) ==
    /\ sdPc[s] = "closeRx"
    /\ Close("rx")
    /\ sdPc' = [sdPc EXCEPT ![s] = "select"]
    /\ sdInfo' = [sdInfo EXCEPT ![s].closes = @ + 1, ![s].waited = TRUE]
    /\ UNCHANGED <<responsive, childState, killSent, processState, waitPc, done,
                   doneFiredBy, mu, killLog, taskVars, recvVars, statVars>>
    /\ UNCHANGED moreVars

\* case <-time.After(30s): the timer wins the select only while p.done is open.
ShutdownTimeout(s) ==
    /\ sdPc[s] = "select"
    /\ ~done
    /\ sdPc' = [sdPc EXCEPT ![s] = "kill"]
    /\ sdInfo' = [sdInfo EXCEPT ![s].timedOut = TRUE]
    /\ UNCHANGED <<responsive, childState, killSent, processState, waitPc, pipeOpen,
                   closeCalls, done, doneFiredBy, mu, killLog, taskVars, recvVars, statVars>>
    /\ UNCHANGED moreVars

\* case <-p.done
ShutdownSelectDone(s) ==
    /\ sdPc[s] = "select"
    /\ done
    /\ sdPc' = [sdPc EXCEPT ![s] = "returned"]
    /\ mu' = 0
    /\ UNCHANGED <<responsive, childState, killSent, processState, waitPc, pipeOpen,
                   closeCalls, done, doneFiredBy, sdInfo, killLog, taskVars, recvVars, statVars>>
    /\ UNCHANGED moreVars

\* mutant of ShutdownKill: Shutdown fires Done itself after the kill
ShutdownKill_closesDone(s) ==
    /\ sdPc[s] = "kill"
    /\ killSent' = TRUE
    /\ killLog' = Append(killLog, [by |-> s, timedOut |-> sdInfo[s].timedOut,
                                   done |-> done, rxOpen |-> pipeOpen["rx"],
                                   txOpen |-> pipeOpen["tx"], reaped |-> Reaped])
    /\ done' = TRUE
    /\ doneFiredBy' = Append(doneFiredBy, "Shutdown")
    /\ sdPc' = [sdPc EXCEPT ![s] = "waitDone"]
    /\ UNCHANGED <<responsive, childState, waitVars, pipeVars, mu, sdInfo,
                   taskVars, recvVars, statVars>>
    /\ UNCHANGED moreVars

\* syscall.Kill(-pid, SIGKILL)
ShutdownKill(s) ==
    /\ sdPc[s] = "kill"
    /\ killSent' = TRUE
    /\ killLog' = Append(killLog, [by |-> s, timedOut |-> sdInfo[s].timedOut,
                                   done |-> done, rxOpen |-> pipeOpen["rx"],
                                   txOpen |-> pipeOpen["tx"], reaped |-> Reaped])
    /\ sdPc' = [sdPc EXCEPT ![s] = "waitDone"]
    /\ UNCHANGED <<responsive, childState, processState, waitPc, pipeOpen,
                   closeCalls, done, doneFiredBy, mu, sdInfo, taskVars, recvVars, statVars>>
    /\ UNCHANGED moreVars

\* <-p.done after the kill, then the deferred Unlock
ShutdownWaitDone(s) ==
    /\ sdPc[s] = "waitDone"
    /\ done
    /\ sdPc' = [sdPc EXCEPT ![s] = "returned"]
    /\ mu' = 0
    /\ UNCHANGED <<responsive, childState, killSent, processState, waitPc, pipeOpen,
                   closeCalls, done, doneFiredBy, sdInfo, killLog, taskVars, recvVars, statVars>>
    /\ UNCHANGED moreVars


\* ---- Task() and SendTask() ----

\* mutant of TaskChReady: the parked loop takes a task although Done has fired
TaskChReady_ignoresDone == taskPc = "parked"

\* A receiver is waiting on p.taskCh: the Task() loop is parked in its select
\* and close(p.done) has not claimed it.  p.taskCh is unbuffered.
TaskChReady == taskPc = "parked" /\ ~done

\* a task was accepted and its frame is not yet written
SlotOccupied == taskPc \in {"marshal", "write"}

Running == ~done /\ childState = "live" /\ \A e \in Ends : pipeOpen[e]

\* mutant of SendTask: the select has no default case, the send waits for the loop
SendTask_noDefault(sz) ==
    /\ nextTask < MaxSends
    /\ TaskChReady
    /\ nextTask' = nextTask + 1
    /\ sendLog' = Append(sendLog, [task |-> nextTask + 1, ok |-> TRUE,
                                   done |-> done, txOpen |-> pipeOpen["tx"],
                                   closed |-> (\A e \in Ends : ~pipeOpen[e]),
                                   running |-> Running, slot |-> SlotOccupied,
                                   parked |-> (taskPc = "parked")])
    /\ taskInHand' = [id |-> nextTask + 1, size |-> sz]
    /\ taskPc' = "marshal"
    /\ UNCHANGED <<txPipe, taskExit>>
    /\ UNCHANGED <<childVars, waitVars, pipeVars, doneVars, sdVars, recvVars, statVars>>
    /\ UNCHANGED moreVars

\* select { case p.taskCh <- task: default: err = errors.New(...) }
SendTask(sz) ==
    /\ nextTask < MaxSends
    /\ nextTask' = nextTask + 1
    /\ sendLog' = Append(sendLog, [task |-> nextTask + 1, ok |-> TaskChReady,
                                   done |-> done, txOpen |-> pipeOpen["tx"],
                                   closed |-> (\A e \in Ends : ~pipeOpen[e]),
                                   running |-> Running, slot |-> SlotOccupied,
                                   parked |-> (taskPc = "parked")])
    /\ IF TaskChReady
         THEN /\ taskInHand' = [id |-> nextTask + 1, size |-> sz]
              /\ taskPc' = "marshal"
         ELSE UNCHANGED <<taskInHand, taskPc>>
    /\ UNCHANGED <<txPipe, taskExit>>
    /\ UNCHANGED <<childVars, waitVars, pipeVars, doneVars, sdVars, recvVars, statVars>>
    /\ UNCHANGED moreVars

NoTask == [id |-> 0, size |-> 0]

\* the select of the loop is evaluated: p.done closed -> return, else park
TaskSelect ==
    /\ taskPc = "select"
    /\ IF done THEN taskPc' = "returned" /\ taskExit' = "done"
               ELSE taskPc' = "parked" /\ taskExit' = taskExit
    /\ UNCHANGED <<taskInHand, nextTask, sendLog, txPipe>>
    /\ UNCHANGED <<childVars, waitVars, pipeVars, doneVars, sdVars, recvVars, statVars>>
    /\ UNCHANGED moreVars

\* case <-p.done wakes the parked loop
TaskWakeDone ==
    /\ taskPc = "parked"
    /\ done
    /\ taskPc' = "returned"
    /\ taskExit' = "done"
    /\ UNCHANGED <<taskInHand, nextTask, sendLog, txPipe>>
    /\ UNCHANGED <<childVars, waitVars, pipeVars, doneVars, sdVars, recvVars, statVars>>
    /\ UNCHANGED moreVars

\* task.MarshalToSizedBuffer(dst[4:]); on error: log, continue
TaskMarshal ==
    /\ taskPc = "marshal"
    /\ \E ok \in BOOLEAN :
         IF ok THEN taskPc' = "write" /\ taskInHand' = taskInHand
               ELSE taskPc' = "select" /\ taskInHand' = NoTask
    /\ UNCHANGED <<nextTask, sendLog, txPipe, taskExit>>
    /\ UNCHANGED <<childVars, waitVars, pipeVars, doneVars, sdVars, recvVars, statVars>>
    /\ UNCHANGED moreVars

\* mutant of WriteError: a write on the closed end is not refused
WriteError_ignoresClose == IF childState = "exited" THEN "epipe" ELSE "none"

\* the error p.tx.Write returns: os.ErrClosed on the closed end, EPIPE once the
\* reading process is gone
WriteError ==
    IF ~pipeOpen["tx"] THEN "closed"
    ELSE IF childState = "exited" THEN "epipe"
    ELSE "none"

\* mutant of TaskWrite: after a failed write on an open pipe the loop continues
TaskWrite_continues ==
    /\ taskPc = "write"
    /\ IF WriteError = "none"
         THEN /\ txPipe' = Append(txPipe, taskInHand)
              /\ taskPc' = "cntTx"
              /\ UNCHANGED <<taskInHand, taskExit>>
         ELSE /\ taskPc' = IF WriteError = "closed" THEN "returned" ELSE "select"
              /\ taskExit' = IF WriteError = "closed" THEN "closed" ELSE taskExit
              /\ taskInHand' = NoTask
              /\ UNCHANGED txPipe
    /\ writeErrs' = IF WriteError = "none" THEN writeErrs
                    ELSE Append(writeErrs, [err |-> WriteError, txOpen |-> pipeOpen["tx"]])
    /\ UNCHANGED <<nextTask, sendLog, wrote, rxCut, atDone, peerVars>>
    /\ UNCHANGED <<childVars, waitVars, pipeVars, doneVars, sdVars, recvVars, statVars>>

\* n, err = p.tx.Write(dst): one buffer holding the 4-byte length and the payload
TaskWrite ==
    /\ taskPc = "write"
    /\ IF WriteError = "none"
         THEN /\ txPipe' = Append(txPipe, taskInHand)
              /\ taskPc' = "cntTx"
              /\ UNCHANGED <<taskInHand, taskExit>>
         ELSE /\ taskPc' = "returned"
              /\ taskExit' = WriteError
              /\ taskInHand' = NoTask
              /\ UNCHANGED txPipe
    /\ writeErrs' = IF WriteError = "none" THEN writeErrs
                    ELSE Append(writeErrs, [err |-> WriteError, txOpen |-> pipeOpen["tx"]])
    /\ UNCHANGED <<nextTask, sendLog, wrote, rxCut, atDone, peerVars>>
    /\ UNCHANGED <<childVars, waitVars, pipeVars, doneVars, sdVars, recvVars, statVars>>

\* atomic.AddUint64(&p.txCnt, 1)
TaskCountCnt ==
    /\ taskPc = "cntTx"
    /\ ctr' = [ctr EXCEPT !["txCnt"] = @ + 1]
    /\ quiet' = FALSE
    /\ taskPc' = "bytesTx"
    /\ UNCHANGED <<taskInHand, nextTask, sendLog, txPipe, taskExit>>
    /\ UNCHANGED <<now, updateTime, samples, lastGS, recvSince>>
    /\ UNCHANGED <<childVars, waitVars, pipeVars, doneVars, sdVars, recvVars>>
    /\ UNCHANGED moreVars

\* atomic.AddUint64(&p.txBytes, uint64(n)), n = 4 + task.Size()
TaskCountBytes ==
    /\ taskPc = "bytesTx"
    /\ ctr' = [ctr EXCEPT !["txBytes"] = @ + 4 + taskInHand.size]
    /\ quiet' = FALSE
    /\ taskPc' = "select"
    /\ taskInHand' = NoTask
    /\ UNCHANGED <<nextTask, sendLog, txPipe, taskExit>>
    /\ UNCHANGED <<now, updateTime, samples, lastGS, recvSince>>
    /\ UNCHANGED <<childVars, waitVars, pipeVars, doneVars, sdVars, recvVars>>
    /\ UNCHANGED moreVars


\* ---- the plugin writing record frames ----

\* one frame [4-byte length][payload] arrives in the plugin->agent pipe;
\* ok tells whether Record.Unmarshal accepts the payload
ChildWriteFrame(len, ok) ==
    /\ childState = "live"
    /\ pipeOpen["rx"]
    /\ nextFrame < MaxFrames
    /\ rxPipe' = Append(rxPipe, [id |-> nextFrame + 1, len |-> len, ok |-> ok])
    /\ wrote' = Append(wrote, [id |-> nextFrame + 1, len |-> len, ok |-> ok])
    /\ nextFrame' = nextFrame + 1
    /\ UNCHANGED <<writeErrs, rxCut, atDone, peerVars>>
    /\ UNCHANGED <<recvPc, readerBuf, recInHand, sink>>
    /\ UNCHANGED <<childVars, waitVars, pipeVars, doneVars, sdVars, taskVars, statVars>>

\* the plugin sends a record of any payload length, decodable or not
ChildWrite == \E len \in PayloadLens, ok \in BOOLEAN : ChildWriteFrame(len, ok)

\* ---- Receive() and receiveDataWithSize() ----

NoRec == [id |-> 0, len |-> 0, ok |-> FALSE]

\* the counters receiveDataWithSize adds to
RecvCntCounter == "txCnt"
RecvBytesCounter == "txBytes"

\* p.reader = bufio.NewReaderSize(rx_r, 1024*128)
ReaderSize == 131072

RECURSIVE Fits(_, _)
\* the number of leading frames of q that fit together into room bytes
Fits(q, room) ==
    IF q = <<>> \/ 4 + Head(q).len > room THEN 0
    ELSE 1 + Fits(Tail(q), room - (4 + Head(q).len))

\* the frames a read of the empty p.reader takes out of the pipe: as many as fit
\* its buffer; a frame larger than the buffer is read through it on its own
Filled ==
    IF rxPipe = <<>> THEN 0
    ELSE IF Fits(rxPipe, ReaderSize) = 0 THEN 1
    ELSE Fits(rxPipe, ReaderSize)

\* mutant of Readable: the reader hands out the newest frame first
Readable_newestFirst ==
    LET q == IF readerBuf # <<>> THEN readerBuf
             ELSE IF pipeOpen["rx"] THEN SubSeq(rxPipe, 1, Filled)
             ELSE <<>>
    IN  IF q = <<>> THEN q ELSE <<q[Len(q)]>> \o SubSeq(q, 1, Len(q) - 1)

\* what p.reader can deliver: its own buffer first, else what the open pipe holds
Readable ==
    IF readerBuf # <<>> THEN readerBuf
    ELSE IF pipeOpen["rx"] THEN SubSeq(rxPipe, 1, Filled)
    ELSE <<>>

\* io.ReadFull(p.reader, message) into make([]byte, int(l)): the length of the
\* payload is not limited by the reader's buffer, bufio.ErrBufferFull never comes
PayloadReadError(len) == "none"

\* binary.Read of the length, io.ReadFull of the payload, rec.Unmarshal; in
\* Receive() bufio.ErrBufferFull and a failed Unmarshal are logged and skipped
RecvFrame ==
    /\ recvPc = "read"
    /\ Readable # <<>>
    /\ readerBuf' = Tail(Readable)
    /\ rxPipe' = IF readerBuf # <<>> THEN rxPipe
                 ELSE SubSeq(rxPipe, Filled + 1, Len(rxPipe))
    /\ IF PayloadReadError(Head(Readable).len) = "none" /\ Head(Readable).ok
         THEN recInHand' = Head(Readable) /\ recvPc' = "cntRx"
         ELSE recInHand' = NoRec /\ recvPc' = "read"
    /\ UNCHANGED <<nextFrame, sink>>
    /\ UNCHANGED <<childVars, waitVars, pipeVars, doneVars, sdVars, taskVars, statVars>>
    /\ UNCHANGED moreVars

\* mutant of RecvClosed: os.ErrClosed is logged like any other error and the
\* loop continues
RecvClosed_continues ==
    /\ recvPc = "read"
    /\ readerBuf = <<>>
    /\ ~pipeOpen["rx"]
    /\ UNCHANGED vars

\* the read fails with os.ErrClosed: the loop breaks
RecvClosed ==
    /\ recvPc = "read"
    /\ readerBuf = <<>>
    /\ ~pipeOpen["rx"]
    /\ recvPc' = "returned"
    /\ UNCHANGED <<nextFrame, rxPipe, readerBuf, recInHand, sink>>
    /\ UNCHANGED <<childVars, waitVars, pipeVars, doneVars, sdVars, taskVars, statVars>>
    /\ UNCHANGED moreVars

\* the stream ended inside a frame: binary.Read or io.ReadFull returns
\* io.ErrUnexpectedEOF, which is neither io.EOF nor a close error: the rest of
\* the stream is consumed, the error is logged and the loop continues
RecvCutFrame ==
    /\ recvPc = "read"
    /\ readerBuf = <<>>
    /\ pipeOpen["rx"]
    /\ rxPipe = <<>>
    /\ childState = "exited"
    /\ rxCut
    /\ rxCut' = FALSE
    /\ UNCHANGED <<writeErrs, wrote, atDone, peerVars>>
    /\ UNCHANGED <<childVars, waitVars, pipeVars, doneVars, sdVars, taskVars, recvVars,
                   statVars>>

\* the read fails with io.EOF (the plugin is gone, the pipe is drained): the loop breaks
RecvEOF ==
    /\ recvPc = "read"
    /\ readerBuf = <<>>
    /\ pipeOpen["rx"]
    /\ rxPipe = <<>>
    /\ childState = "exited"
    /\ ~rxCut
    /\ recvPc' = "returned"
    /\ UNCHANGED <<nextFrame, rxPipe, readerBuf, recInHand, sink>>
    /\ UNCHANGED <<childVars, waitVars, pipeVars, doneVars, sdVars, taskVars, statVars>>
    /\ UNCHANGED moreVars

\* atomic.AddUint64(&p.txCnt, 1)
RecvCountCnt ==
    /\ recvPc = "cntRx"
    /\ ctr' = [ctr EXCEPT ![RecvCntCounter] = @ + 1]
    /\ quiet' = FALSE
    /\ recvPc' = "bytesRx"
    /\ UNCHANGED <<nextFrame, rxPipe, readerBuf, recInHand, sink>>
    /\ UNCHANGED <<now, updateTime, samples, lastGS, recvSince>>
    /\ UNCHANGED <<childVars, waitVars, pipeVars, doneVars, sdVars, taskVars>>
    /\ UNCHANGED moreVars

\* atomic.AddUint64(&p.txBytes, uint64(l))
RecvCountBytes ==
    /\ recvPc = "bytesRx"
    /\ ctr' = [ctr EXCEPT ![RecvBytesCounter] = @ + recInHand.len]
    /\ recvSince' = recvSince + recInHand.len
    /\ quiet' = FALSE
    /\ recvPc' = "forward"
    /\ UNCHANGED <<nextFrame, rxPipe, readerBuf, recInHand, sink>>
    /\ UNCHANGED <<now, updateTime, samples, lastGS>>
    /\ UNCHANGED <<childVars, waitVars, pipeVars, doneVars, sdVars, taskVars>>
    /\ UNCHANGED moreVars

\* transport.DTransfer.Transmission(rec, false)
RecvForward ==
    /\ recvPc = "forward"
    /\ sink' = Append(sink, recInHand.id)
    /\ recInHand' = NoRec
    /\ recvPc' = "read"
    /\ UNCHANGED <<nextFrame, rxPipe, readerBuf>>
    /\ UNCHANGED <<childVars, waitVars, pipeVars, doneVars, sdVars, taskVars, statVars>>
    /\ UNCHANGED moreVars

\* ---- GetState() ----

\* a rate is the exact quotient n / d
ZeroRate == [n |-> 0, d |-> 1]
Rate(count, instant) == IF instant # 0 THEN [n |-> count, d |-> instant] ELSE ZeroRate
RateEq(r, q) == r.n * q.d = q.n * r.d

ZeroCtr == [c \in CtrNames |-> 0]

\* mutant of GetState: the counters are loaded, not swapped to zero
GetState_noReset ==
    /\ samples < MaxSamples
    /\ \E t \in now..(now + MaxElapsed) :
       LET instant == t - updateTime
       IN /\ ctr' = ctr
          /\ recvSince' = recvSince
          /\ lastGS' = [instant |-> instant, prevInstant |-> lastGS.instant,
                        pre |-> ctr, post |-> ctr,
                        rates |-> [c \in CtrNames |-> Rate(ctr[c], instant)],
                        recv |-> recvSince, quiet |-> quiet]
          /\ updateTime' = t
          /\ now' = t
    /\ samples' = samples + 1
    /\ quiet' = TRUE
    /\ UNCHANGED <<childVars, waitVars, pipeVars, doneVars, sdVars, taskVars, recvVars>>
    /\ UNCHANGED moreVars

\* time.Now() is read by GetState only: each call reads a clock value t that is
\* not before the previous reading
GetState ==
    /\ samples < MaxSamples
    /\ \E t \in now..(now + MaxElapsed) :
       LET instant == t - updateTime
           post == IF instant # 0 THEN ZeroCtr ELSE ctr
       IN /\ ctr' = post
          /\ recvSince' = IF instant # 0 THEN 0 ELSE recvSince
          /\ lastGS' = [instant |-> instant, prevInstant |-> lastGS.instant,
                        pre |-> ctr, post |-> post,
                        rates |-> [c \in CtrNames |-> Rate(ctr[c], instant)],
                        recv |-> recvSince, quiet |-> quiet]
          /\ updateTime' = t
          /\ now' = t
    /\ samples' = samples + 1
    /\ quiet' = TRUE
    /\ UNCHANGED <<childVars, waitVars, pipeVars, doneVars, sdVars, taskVars, recvVars>>
    /\ UNCHANGED moreVars

\* ---- the framed protocol, byte by byte ----

\* binary.LittleEndian.PutUint32 / binary.Write(w, binary.LittleEndian, uint32(n))
PutUint32(n) ==
    <<n % 256, (n \div 256) % 256, (n \div 65536) % 256, (n \div 16777216) % 256>>

\* binary.Read(r, binary.LittleEndian, &len) on four bytes
Uint32(b) == b[1] + 256 * b[2] + 65536 * b[3] + 16777216 * b[4]

\* a message is what Unmarshal returns: a payload whose bytes all agree decodes
\* to the message made of that byte and its length, the empty payload to the
\* empty message, any other payload is rejected
BadMsg == [tag |-> 0 - 1, size |-> 0]
Unmarshal(buf) ==
    IF buf = <<>> THEN [tag |-> 0, size |-> 0]
    ELSE IF \A i \in 1..Len(buf) : buf[i] = buf[1] THEN [tag |-> buf[1], size |-> Len(buf)]
    ELSE BadMsg

\* Marshal / MarshalToSizedBuffer of a message
Marshal(m) == [i \in 1..m.size |-> m.tag]

\* the payloads that are the Marshal of a message
MsgPayloads == {pl \in Payloads : Unmarshal(pl) # BadMsg}

\* the first n bytes of q, and q without them
Take(q, n) == SubSeq(q, 1, n)
Drop(q, n) == SubSeq(q, n + 1, Len(q))

\* Task(): dst = make([]byte, 4+s); PutUint32(dst[:4], s); payload in dst[4:];
\* one p.tx.Write(dst).  Payloads Unmarshal rejects stand for frames the
\* plugin's decoder does not accept.
AgentWriteFrame(pl) ==
    /\ Len(tSent) < MaxSends
    /\ cIn' = cIn \o PutUint32(Len(pl)) \o pl
    /\ tSent' = Append(tSent, pl)
    /\ UNCHANGED <<cLog, wpc, wmu, wMsg, cOut, wire, supPos, rSent, supGot, raced, txShut, wErr>>
    /\ UNCHANGED hostVars

\* ---- Client.ReceiveTask() ----

\* c.reader.Peek(int(len)): more than the buffer holds is bufio.ErrBufferFull
ClientPeekError(len) == IF len > MaxPeek THEN "bufferFull" ELSE "none"

\* the whole call under c.rmu: binary.Read of the prefix, Peek, Discard,
\* Unmarshal.  The call blocks until the prefix and then the payload (or a
\* full buffer) have arrived.
ReceiveTask ==
    /\ Len(cIn) >= 4
    /\ LET len == Uint32(Take(cIn, 4))
           rest == Drop(cIn, 4)
       IN  IF ClientPeekError(len) # "none"
             THEN /\ Len(rest) >= MaxPeek
                  /\ cIn' = rest
                  /\ cLog' = Append(cLog, [len |-> len, held |-> Len(rest) >= len,
                                           consumed |-> 4, msg |-> BadMsg,
                                           err |-> ClientPeekError(len)])
             ELSE /\ Len(rest) >= len
                  /\ cIn' = Drop(rest, len)
                  /\ cLog' = Append(cLog, [len |-> len, held |-> TRUE,
                                           consumed |-> 4 + len,
                                           msg |-> Unmarshal(Take(rest, len)),
                                           err |-> IF Unmarshal(Take(rest, len)) = BadMsg
                                                     THEN "unmarshal" ELSE "none"])
    /\ UNCHANGED <<tSent, wpc, wmu, wMsg, cOut, wire, supPos, rSent, supGot, raced, txShut, wErr>>
    /\ UNCHANGED hostVars

\* ---- Client.SendRecord(), Client.Flush(), Client.Close() ----

\* the caller is executing a method of c.writer (between entering the first
\* and leaving the last call it makes on it)
InWriter(c) == wpc[c] \in {"prefix", "payload", "flush", "closeFlush"}

OthersInWriter(c) == \E d \in Callers \ {c} : InWriter(d)

\* bufio.Writer.Write(b): while b does not fit in what is left of the buffer, an
\* empty buffer lets b go to the pipe directly, else the buffer is filled up
\* and flushed; what remains of b is copied into the buffer.
\* out: the bytes that reach the pipe, buf: the bytes buffered afterwards
RECURSIVE BufWritten(_, _, _)
BufWritten(out, buf, b) ==
    IF Len(b) <= MaxBuffered - Len(buf) THEN [out |-> out, buf |-> buf \o b]
    ELSE IF buf = <<>> THEN [out |-> out \o b, buf |-> <<>>]
    ELSE BufWritten(out \o buf \o Take(b, MaxBuffered - Len(buf)), <<>>,
                    Drop(b, MaxBuffered - Len(buf)))

\* c.writer.Write(b) returns an error: an earlier error sticks, and a flush on
\* the closed pipe fails
WriteFails(b) == wErr \/ (txShut /\ BufWritten(<<>>, cOut, b).out # <<>>)

\* c.writer.Write(b)
BufWrite(b) ==
    IF WriteFails(b)
      THEN wErr' = TRUE /\ UNCHANGED <<wire, cOut>>
      ELSE /\ wire' = wire \o BufWritten(<<>>, cOut, b).out
           /\ cOut' = BufWritten(<<>>, cOut, b).buf
           /\ wErr' = wErr

\* SendRecord(): rec.Marshal(), c.wmu.Lock(), then binary.Write of the length begins
SendRecordLock(c, pl) ==
    /\ wpc[c] = "idle"
    /\ wmu = 0
    /\ Len(rSent) < MaxFrames
    /\ Unmarshal(pl) # BadMsg
    /\ wmu' = c
    /\ wpc' = [wpc EXCEPT ![c] = "prefix"]
    /\ wMsg' = [wMsg EXCEPT ![c] = Marshal(Unmarshal(pl))]
    /\ rSent' = Append(rSent, pl)
    /\ raced' = (raced \/ OthersInWriter(c))
    /\ UNCHANGED <<cIn, tSent, cLog, cOut, wire, supPos, supGot, txShut, wErr>>
    /\ UNCHANGED hostVars

\* binary.Write(c.writer, binary.LittleEndian, uint32(len(buf))) returns: on
\* an error SendRecord() returns (deferred Unlock), else c.writer.Write(buf) begins
SendRecordPrefix(c) ==
    /\ wpc[c] = "prefix"
    /\ BufWrite(PutUint32(Len(wMsg[c])))
    /\ IF WriteFails(PutUint32(Len(wMsg[c])))
         THEN /\ wpc' = [wpc EXCEPT ![c] = "idle"]
              /\ wmu' = 0
              /\ wMsg' = [wMsg EXCEPT ![c] = <<>>]
         ELSE /\ wpc' = [wpc EXCEPT ![c] = "payload"]
              /\ UNCHANGED <<wmu, wMsg>>
    /\ UNCHANGED <<cIn, tSent, cLog, supPos, rSent, supGot, raced, txShut>>
    /\ UNCHANGED hostVars

\* c.writer.Write(buf) returns; deferred c.wmu.Unlock()
SendRecordPayload(c) ==
    /\ wpc[c] = "payload"
    /\ BufWrite(wMsg[c])
    /\ wpc' = [wpc EXCEPT ![c] = "idle"]
    /\ wmu' = 0
    /\ wMsg' = [wMsg EXCEPT ![c] = <<>>]
    /\ UNCHANGED <<cIn, tSent, cLog, supPos, rSent, supGot, raced, txShut>>
    /\ UNCHANGED hostVars

\* Flush(): c.wmu.Lock(), c.writer.Buffered() != 0, c.writer.Flush() begins
ClientFlushLock(c) ==
    /\ wpc[c] = "idle"
    /\ wmu = 0
    /\ cOut # <<>>
    /\ wmu' = c
    /\ wpc' = [wpc EXCEPT ![c] = "flush"]
    /\ raced' = (raced \/ OthersInWriter(c))
    /\ UNCHANGED <<cIn, tSent, cLog, wMsg, cOut, wire, supPos, rSent, supGot, txShut, wErr>>
    /\ UNCHANGED hostVars

\* c.writer.Flush() returns (with an error and the bytes kept on the closed
\* pipe); deferred c.wmu.Unlock()
ClientFlushDone(c) ==
    /\ wpc[c] = "flush"
    /\ IF wErr \/ (txShut /\ cOut # <<>>)
         THEN wErr' = TRUE /\ UNCHANGED <<wire, cOut>>
         ELSE wire' = wire \o cOut /\ cOut' = <<>> /\ wErr' = wErr
    /\ wpc' = [wpc EXCEPT ![c] = "idle"]
    /\ wmu' = 0
    /\ UNCHANGED <<cIn, tSent, cLog, wMsg, supPos, rSent, supGot, raced, txShut>>
    /\ UNCHANGED hostVars

\* Close(): c.writer.Flush() begins, c.wmu is not taken
ClientCloseBegin(c) ==
    /\ wpc[c] = "idle"
    /\ \A d \in Callers : wpc[d] \notin {"closeFlush", "closed"}
    /\ wpc' = [wpc EXCEPT ![c] = "closeFlush"]
    /\ raced' = (raced \/ OthersInWriter(c))
    /\ UNCHANGED <<cIn, tSent, cLog, wmu, wMsg, cOut, wire, supPos, rSent, supGot, txShut, wErr>>
    /\ UNCHANGED hostVars

\* c.writer.Flush() of Close() returns, then c.rx.Close() and c.tx.Close().
\* A Flush() that overlapped another caller's use of c.writer is a data race
\* on the buffer and its fill count: the buffered bytes reach the pipe once,
\* not at all, or twice.
ClientCloseDone(c) ==
    /\ wpc[c] = "closeFlush"
    /\ IF wErr
         THEN UNCHANGED <<wire, cOut>>
         ELSE \E copies \in (IF raced THEN {0, 1, 2} ELSE {1}) :
                /\ wire' = wire \o (IF copies = 0 THEN <<>>
                                     ELSE IF copies = 1 THEN cOut ELSE cOut \o cOut)
                /\ cOut' = <<>>
    /\ wpc' = [wpc EXCEPT ![c] = "closed"]
    /\ txShut' = TRUE
    /\ UNCHANGED <<cIn, tSent, cLog, wmu, wMsg, supPos, rSent, supGot, raced, wErr>>
    /\ UNCHANGED hostVars

\* receiveDataWithSize() on the bytes: binary.Read of the length, io.ReadFull
\* of the payload (waits until all of it has arrived), rec.Unmarshal
SupReceive ==
    /\ Len(wire) - supPos >= 4
    /\ LET in == Drop(wire, supPos)
           len == Uint32(Take(in, 4))
       IN  /\ Len(in) >= 4 + len
           /\ supGot' = Append(supGot, Unmarshal(SubSeq(in, 5, 4 + len)))
           /\ supPos' = supPos + 4 + len
    /\ UNCHANGED <<cIn, tSent, cLog, wpc, wmu, wMsg, cOut, wire, rSent, raced, txShut, wErr>>
    /\ UNCHANGED hostVars

\* ---- specification ----

InitLife ==
    /\ responsive \in BOOLEAN
    /\ childState = "live"
    /\ killSent = FALSE
    /\ processState = FALSE
    /\ waitPc = "cmdWait"
    /\ pipeOpen = [e \in Ends |-> TRUE]
    /\ closeCalls = [e \in Ends |-> 0]
    /\ done = FALSE
    /\ doneFiredBy = <<>>
    /\ mu = 0
    /\ sdPc = [s \in Callers |-> "idle"]
    /\ sdInfo = [s \in Callers |-> [exitedAtCall |-> FALSE, recordedAtCall |-> FALSE,
                                    closes |-> 0, waited |-> FALSE, timedOut |-> FALSE]]
    /\ killLog = <<>>

InitTask ==
    /\ taskPc = "select"
    /\ taskInHand = NoTask
    /\ nextTask = 0
    /\ sendLog = <<>>
    /\ txPipe = <<>>
    /\ taskExit = "running"

InitRecv ==
    /\ recvPc = "read"
    /\ nextFrame = 0
    /\ rxPipe = <<>>
    /\ readerBuf = <<>>
    /\ recInHand = NoRec
    /\ sink = <<>>

InitStat ==
    /\ ctr = ZeroCtr
    /\ now = 0
    /\ updateTime = 0
    /\ samples = 0
    /\ lastGS = [instant |-> 0, prevInstant |-> 0, pre |-> ZeroCtr, post |-> ZeroCtr,
                 rates |-> [c \in CtrNames |-> ZeroRate], recv |-> 0, quiet |-> TRUE]
    /\ recvSince = 0
    /\ quiet = TRUE

NotDone == [ctr |-> [c \in CtrNames |-> 0], sink |-> 0, tx |-> 0, rx |-> <<>>,
            held |-> {}, taskPc |-> "none"]

InitMore ==
    /\ writeErrs = <<>>
    /\ wrote = <<>>
    /\ rxCut = FALSE
    /\ atDone = NotDone

InitPeer ==
    /\ cIn = <<>>
    /\ tSent = <<>>
    /\ cLog = <<>>
    /\ wpc = [c \in Callers |-> "idle"]
    /\ wmu = 0
    /\ wMsg = [c \in Callers |-> <<>>]
    /\ cOut = <<>>
    /\ wire = <<>>
    /\ supPos = 0
    /\ rSent = <<>>
    /\ supGot = <<>>
    /\ raced = FALSE
    /\ txShut = FALSE
    /\ wErr = FALSE

Init == InitLife /\ InitTask /\ InitRecv /\ InitStat /\ InitMore /\ InitPeer

\* the supervisor's lifecycle: the child, Wait() and every Shutdown() caller
Next ==
    \/ ChildExitNatural
    \/ ChildExitKilled
    \/ WaitCmdWait
    \/ WaitSetState
    \/ WaitCloseRx
    \/ WaitCloseTx
    \/ WaitCloseDone
    \/ \E s \in Callers : ShutdownCall(s)
    \/ \E s \in Callers : ShutdownLock(s)
    \/ \E s \in Callers : ShutdownCheck(s)
    \/ \E s \in Callers : ShutdownCloseTx(s)
    \/ \E s \in Callers : ShutdownCloseRx(s)
    \/ \E s \in Callers : ShutdownTimeout(s)
    \/ \E s \in Callers : ShutdownSelectDone(s)
    \/ \E s \in Callers : ShutdownKill(s)
    \/ \E s \in Callers : ShutdownWaitDone(s)

\* the task dispatcher next to the lifecycle, with one Shutdown() caller
TaskNext ==
    \/ ChildExitNatural
    \/ ChildExitKilled
    \/ WaitCmdWait
    \/ WaitSetState
    \/ WaitCloseRx
    \/ WaitCloseTx
    \/ WaitCloseDone
    \/ ShutdownCall(1)
    \/ ShutdownLock(1)
    \/ ShutdownCheck(1)
    \/ ShutdownCloseTx(1)
    \/ ShutdownCloseRx(1)
    \/ ShutdownTimeout(1)
    \/ ShutdownSelectDone(1)
    \/ ShutdownKill(1)
    \/ ShutdownWaitDone(1)
    \/ \E sz \in TaskSizes : SendTask(sz)
    \/ TaskSelect
    \/ TaskWakeDone
    \/ TaskMarshal
    \/ TaskWrite
    \/ TaskCountCnt
    \/ TaskCountBytes

\* the traffic counters: the plugin writing frames, the Receive() loop and GetState()
StatNext ==
    \/ ChildWrite
    \/ RecvFrame
    \/ RecvCountCnt
    \/ RecvCountBytes
    \/ RecvForward
    \/ GetState

\* the three long-lived tasks Wait(), Task() and Receive() with a plugin that
\* writes records and exits; nobody calls Shutdown().  The records are of one
\* length, decodable or not, and the tasks of one size.
LoopNext ==
    \/ ChildExitNatural
    \/ WaitCmdWait
    \/ WaitSetState
    \/ WaitCloseRx
    \/ WaitCloseTx
    \/ WaitCloseDone
    \/ SendTask(6)
    \/ TaskSelect
    \/ TaskWakeDone
    \/ TaskMarshal
    \/ TaskWrite
    \/ TaskCountCnt
    \/ TaskCountBytes
    \/ \E ok \in BOOLEAN : ChildWriteFrame(1000, ok)
    \/ RecvFrame
    \/ RecvClosed
    \/ RecvEOF
    \/ RecvCountCnt
    \/ RecvCountBytes
    \/ RecvForward

Spec == Init /\ [][Next]_vars

TaskSpec == Init /\ [][TaskNext]_vars

LoopSpec == Init /\ [][LoopNext]_vars

\* the end of the three long-lived tasks: the plugin exits on its own, in the
\* middle of a frame, or killed by the one Shutdown() caller, while tasks are
\* being sent
ExitNext ==
    \/ ChildExitNatural
    \/ ChildExitKilled
    \/ ChildExitMidFrame
    \/ WaitCmdWait
    \/ WaitSetState
    \/ WaitCloseRx
    \/ WaitCloseTx
    \/ WaitCloseDone
    \/ ShutdownCall(1)
    \/ ShutdownLock(1)
    \/ ShutdownCheck(1)
    \/ ShutdownCloseTx(1)
    \/ ShutdownCloseRx(1)
    \/ ShutdownTimeout(1)
    \/ ShutdownSelectDone(1)
    \/ ShutdownKill(1)
    \/ ShutdownWaitDone(1)
    \/ SendTask(6)
    \/ TaskSelect
    \/ TaskWakeDone
    \/ TaskMarshal
    \/ TaskWrite
    \/ TaskCountCnt
    \/ TaskCountBytes
    \/ RecvCutFrame
    \/ RecvClosed
    \/ RecvEOF

\* Fairness: the goroutines running Wait(), Task() and Receive() keep running;
\* the child's exit, Shutdown() and SendTask() are not forced.
ExitFairness ==
    /\ WF_vars(WaitCmdWait \/ WaitSetState \/ WaitCloseRx \/ WaitCloseTx \/ WaitCloseDone)
    /\ WF_vars(TaskSelect \/ TaskWakeDone \/ TaskMarshal \/ TaskWrite
               \/ TaskCountCnt \/ TaskCountBytes)
    /\ WF_vars(RecvCutFrame \/ RecvClosed \/ RecvEOF)

ExitSpec == Init /\ [][ExitNext]_vars /\ ExitFairness

\* a plugin thread calling ReceiveTask() on a stream of frames of every kind
ClientNext ==
    \/ \E pl \in Payloads : AgentWriteFrame(pl)
    \/ ReceiveTask

ClientSpec == Init /\ [][ClientNext]_vars

\* the framed protocol between the Task() loop and one plugin thread that
\* receives tasks, sends records and flushes
PeerNext ==
    \/ \E pl \in MsgPayloads : AgentWriteFrame(pl)
    \/ ReceiveTask
    \/ \E pl \in Payloads : SendRecordLock(1, pl)
    \/ SendRecordPrefix(1)
    \/ SendRecordPayload(1)
    \/ ClientFlushLock(1)
    \/ ClientFlushDone(1)
    \/ SupReceive

PeerSpec == Init /\ [][PeerNext]_vars

\* the plugin's threads sending records, flushing and closing concurrently
WriterNext ==
    \/ \E c \in Callers, pl \in Payloads : SendRecordLock(c, pl)
    \/ \E c \in Callers : SendRecordPrefix(c)
    \/ \E c \in Callers : SendRecordPayload(c)
    \/ \E c \in Callers : ClientFlushLock(c)
    \/ \E c \in Callers : ClientFlushDone(c)
    \/ \E c \in Callers : ClientCloseBegin(c)
    \/ \E c \in Callers : ClientCloseDone(c)
    \/ SupReceive

WriterSpec == Init /\ [][WriterNext]_vars

StatInit == Init /\ responsive

StatSpec == StatInit /\ [][StatNext]_vars

\* Fairness: every started task keeps running, the grace timer expires unless
\* Done fires first, and a SIGKILLed child exits.  Calling Shutdown and the
\* child's own exit are not forced.
LifeFairness ==
    /\ WF_vars(ChildExitKilled)
    /\ WF_vars(WaitCmdWait \/ WaitSetState \/ WaitCloseRx \/ WaitCloseTx \/ WaitCloseDone)
    /\ \A s \in Callers :
         WF_vars(ShutdownLock(s) \/ ShutdownCheck(s) \/ ShutdownCloseTx(s)
                 \/ ShutdownCloseRx(s) \/ ShutdownTimeout(s) \/ ShutdownSelectDone(s)
                 \/ ShutdownKill(s) \/ ShutdownWaitDone(s))

LiveSpec == Init /\ [][Next]_vars /\ LifeFairness

\* ---- properties of the lifecycle (Spec, LiveSpec) ----

KilledBy(s) == \E i \in 1..Len(killLog) : killLog[i].by = s

\* C1: each of the two owned pipe ends has Close performed on it at most once;
\* no execution closes an already-closed pipe end.
C1_CloseAtMostOnce == \A e \in Ends : closeCalls[e] <= 1

\* C2: the Done signal goes from not-done to done at most once, and only Wait()
\* fires it, never Shutdown().
C2_DoneOnceByWait ==
    /\ Len(doneFiredBy) <= 1
    /\ \A i \in 1..Len(doneFiredBy) : doneFiredBy[i] = "Wait"
    /\ done <=> (Len(doneFiredBy) = 1)

\* Done has fired after a Shutdown() caller killed the child and a second
\* caller went through Shutdown() as well.
C2_Witness ==
    /\ done
    /\ Len(killLog) = 1
    /\ \A s \in Callers : sdPc[s] = "returned"

\* C3: every Shutdown() call eventually returns, whether the child exits after
\* the pipes are closed or has to be killed after the grace period.
C3_ShutdownReturns ==
    \A s \in Callers : (sdPc[s] # "idle") ~> (sdPc[s] = "returned")

\* Every caller has returned, one of them through the grace-period kill of an
\* unresponsive child and another one after waiting for the mutex.
C3_Witness ==
    /\ ~responsive
    /\ \A s \in Callers : sdPc[s] = "returned"
    /\ \E s \in Callers : sdInfo[s].timedOut
    /\ \E s \in Callers : ~sdInfo[s].waited

\* C4 as stated: a Shutdown() call made when the child process has already
\* exited closes no pipe end, does not wait and sends no signal.
C4_ExitedChildUntouched ==
    \A s \in Callers :
        sdInfo[s].exitedAtCall =>
            /\ sdInfo[s].closes = 0
            /\ ~sdInfo[s].waited
            /\ ~KilledBy(s)

\* C4 amended: a Shutdown() call made when Wait() has already recorded the
\* child's exit (IsExited() is true) closes no pipe end, never waits for Done
\* or the grace period, and sends no signal.
C4_RecordedExitUntouched ==
    \A s \in Callers :
        sdInfo[s].recordedAtCall =>
            /\ sdInfo[s].closes = 0
            /\ ~sdInfo[s].waited
            /\ ~sdInfo[s].timedOut
            /\ ~KilledBy(s)
            /\ sdPc[s] \in {"lock", "check", "returned"}

\* A Shutdown() call that was made after the exit was recorded has returned.
C4_Witness ==
    \E s \in Callers : sdInfo[s].recordedAtCall /\ sdPc[s] = "returned"

\* C5: for a child that only a kill ends, the process group gets exactly one
\* SIGKILL over all Shutdown() calls, sent after the grace period elapsed with
\* Done not fired and with both owned pipe ends closed.
C5_ExactlyOneKill ==
    ~responsive =>
        /\ Len(killLog) <= 1
        /\ \A i \in 1..Len(killLog) :
              /\ killLog[i].timedOut
              /\ ~killLog[i].done
              /\ ~killLog[i].rxOpen
              /\ ~killLog[i].txOpen
        /\ (\E s \in Callers : sdPc[s] = "returned") => Len(killLog) = 1

\* All callers went through Shutdown() on an unresponsive child; one kill was sent.
C5_Witness ==
    /\ ~responsive
    /\ \A s \in Callers : sdPc[s] = "returned"
    /\ Len(killLog) = 1
    /\ killLog[1].timedOut

\* ---- properties of the task dispatcher (TaskSpec) ----

Written(t) == \E j \in 1..Len(txPipe) : txPipe[j].id = t

\* C6 as stated: SendTask never blocks; while the supervisor is Running it fails
\* when the slot is occupied and succeeds whenever the slot is empty, whatever
\* the dispatcher loop is doing.
C6_BusyIffSlotOccupied ==
    /\ nextTask < MaxSends => ENABLED (\E sz \in TaskSizes : SendTask(sz))
    /\ \A i \in 1..Len(sendLog) :
          sendLog[i].running => (sendLog[i].ok <=> ~sendLog[i].slot)

\* C6 amended: SendTask never blocks; it fails whenever the slot is occupied,
\* and it succeeds exactly when the dispatcher loop is parked in its select and
\* Done has not fired (an empty slot alone is not enough).
C6_OkIffLoopParked ==
    /\ nextTask < MaxSends => ENABLED (\E sz \in TaskSizes : SendTask(sz))
    /\ \A i \in 1..Len(sendLog) :
          /\ sendLog[i].slot => ~sendLog[i].ok
          /\ sendLog[i].ok <=> (sendLog[i].parked /\ ~sendLog[i].done)

\* While Running, a task was accepted and written, and the next SendTask was
\* refused although the slot was empty: the loop was not back in its select.
C6_Witness ==
    \E i, j \in 1..Len(sendLog) :
        /\ i < j
        /\ sendLog[i].ok /\ Written(sendLog[i].task)
        /\ sendLog[j].running /\ ~sendLog[j].slot /\ ~sendLog[j].ok
        /\ taskPc \in {"cntTx", "bytesTx"}

\* C7: once Done has fired, every SendTask returns an error and its task is
\* neither accepted nor written.
C7_NoAcceptAfterDone ==
    \A i \in 1..Len(sendLog) :
        sendLog[i].done =>
            /\ ~sendLog[i].ok
            /\ taskInHand.id # sendLog[i].task
            /\ ~Written(sendLog[i].task)

\* SendTask was called after Done fired while the dispatcher loop was still
\* parked in its select.
C7_Witness ==
    \E i \in 1..Len(sendLog) : sendLog[i].done /\ sendLog[i].parked

\* C8 as stated: no task is accepted once the supervisor is past Running,
\* including after the owned pipe ends were closed and before Done fires.
C8_NoAcceptPastRunning ==
    \A i \in 1..Len(sendLog) :
        (sendLog[i].done \/ sendLog[i].closed) => ~sendLog[i].ok

\* C8 amended: no task is accepted once Done has fired; a task accepted after
\* the owned tx end was closed and before Done is never written to the pipe
\* and never counted.
C8_AcceptedAfterCloseNeverWritten ==
    \A i \in 1..Len(sendLog) :
        /\ sendLog[i].done => ~sendLog[i].ok
        /\ (sendLog[i].ok /\ ~sendLog[i].txOpen) =>
              /\ ~Written(sendLog[i].task)
              /\ taskInHand.id = sendLog[i].task => taskPc \in {"marshal", "write"}

\* A task was accepted between the close of the pipe ends and Done, and the
\* dispatcher loop ended on the refused write.
C8_Witness ==
    \E i \in 1..Len(sendLog) :
        /\ sendLog[i].ok /\ sendLog[i].closed /\ ~sendLog[i].done
        /\ taskExit = "closed"

\* ---- properties of the traffic counters (StatSpec) ----

AllZeroRates == \A c \in CtrNames : lastGS.rates[c].n = 0

\* C9 as stated: every GetState() call resets all four counters to zero, a
\* zero-interval call included, so that a second GetState() with no traffic in
\* between reports all-zero rates.
C9_EveryCallResets ==
    samples > 0 =>
        /\ lastGS.post = ZeroCtr
        /\ lastGS.instant = 0 => AllZeroRates
        /\ (samples >= 2 /\ lastGS.quiet) => AllZeroRates

\* C9 amended: GetState() resets the four counters exactly when the elapsed
\* interval is not zero; a zero-interval call returns all-zero rates and leaves
\* the counters as they are; a GetState() that follows a non-zero-interval call
\* with no traffic in between reports all-zero rates.
C9_ResetsUnlessZeroInterval ==
    samples > 0 =>
        /\ lastGS.instant # 0 => lastGS.post = ZeroCtr
        /\ lastGS.instant = 0 => (lastGS.post = lastGS.pre /\ AllZeroRates)
        /\ (samples >= 2 /\ lastGS.quiet /\ lastGS.prevInstant # 0) => AllZeroRates

\* After a sampling call with a non-zero interval, frames were counted and a
\* zero-interval GetState() call left the counters in place.
C9_Witness ==
    /\ samples >= 2
    /\ lastGS.prevInstant # 0
    /\ lastGS.instant = 0
    /\ lastGS.pre # ZeroCtr
    /\ ctr = lastGS.pre

\* C10: the receive rate GetState() reports is the payload bytes of the frames
\* read and decoded since the last sample divided by the elapsed seconds (1000
\* bytes over 2 seconds: 500 bytes/sec), and reading frames leaves the tx
\* counters alone (StatSpec writes no task frame, so they stay at zero).
C10_ReceiveRate ==
    (samples > 0 /\ lastGS.instant # 0) =>
        /\ RateEq(lastGS.rates["rxBytes"], Rate(lastGS.recv, lastGS.instant))
        /\ lastGS.pre["txBytes"] = 0
        /\ lastGS.pre["txCnt"] = 0

\* ---- further properties of the lifecycle (Spec) ----

\* C16: whenever Done has fired the child has exited and both owned pipe ends
\* are closed; Wait() closes the pipe ends only after the child has terminated
\* and fires Done only after both closes.
C16_DoneAfterExitAndCloses ==
    /\ waitPc # "cmdWait" => childState = "exited"
    /\ done => /\ childState = "exited"
               /\ \A e \in Ends : ~pipeOpen[e]
               /\ waitPc = "returned"

\* Done has fired on the child's own exit, no Shutdown() involved: the two
\* closes are those of Wait().
C16_Witness ==
    /\ done
    /\ \A s \in Callers : sdPc[s] = "idle"
    /\ \A e \in Ends : closeCalls[e] = 1

\* C20: the SIGKILL is never sent to the process group after Wait() has reaped
\* the child: in every state where the kill is issued cmd.Wait has not returned.
C20_NoKillAfterReap == \A i \in 1..Len(killLog) : ~killLog[i].reaped

\* ---- further properties of the task dispatcher (TaskSpec) ----

\* C18 as stated: a write failure on a pipe that is still open is recoverable,
\* the loop goes on; only a stream-closed error or the Done signal ends the loop.
C18_OpenPipeFailureRecoverable ==
    /\ taskPc = "returned" => taskExit \in {"done", "closed"}
    /\ \A i \in 1..Len(writeErrs) : writeErrs[i].txOpen => taskPc # "returned"

\* C18 amended: every write failure ends the loop, also one on a pipe that is
\* still open (it is logged first); the loop ends on a failed write or on Done
\* and on nothing else.
C18_AnyWriteFailureEndsLoop ==
    /\ Len(writeErrs) <= 1
    /\ \A i \in 1..Len(writeErrs) :
          /\ taskPc = "returned"
          /\ taskExit = writeErrs[i].err
          /\ writeErrs[i].err = "closed" <=> ~writeErrs[i].txOpen
    /\ taskPc = "returned" <=> taskExit \in {"done", "closed", "epipe"}
    /\ taskExit = "done" => done

\* A write failed on the open pipe (the plugin was gone) and the loop returned
\* before Done fired.
C18_Witness ==
    /\ Len(writeErrs) = 1
    /\ writeErrs[1].txOpen
    /\ taskPc = "returned"
    /\ ~done

\* ---- properties of the record receiver (StatSpec) ----

\* the Receive() loop has read everything the plugin wrote
Drained ==
    /\ rxPipe = <<>>
    /\ readerBuf = <<>>
    /\ recvPc = "read"

\* C12 as stated: a frame whose declared length exceeds the 128 KiB reader is
\* logged and skipped, never forwarded to the sink; the normal frame after it
\* is delivered.
C12_OversizeSkipped ==
    /\ \A i \in 1..Len(sink) : wrote[sink[i]].len <= ReaderSize
    /\ Drained => \A j \in 1..Len(wrote) :
          (wrote[j].ok /\ wrote[j].len <= ReaderSize) =>
              \E i \in 1..Len(sink) : sink[i] = j

\* ---- properties of the two directions together (LoopSpec) ----

\* C14: within one direction frames are delivered in write order.  The records
\* forwarded to the sink are records the plugin wrote, in the order it wrote
\* them and none twice; the task frames in the agent->plugin pipe are tasks that
\* SendTask accepted, in the order it accepted them.
C14_WriteOrder ==
    /\ \A i \in 1..Len(sink) :
          /\ sink[i] \in 1..Len(wrote)
          /\ wrote[sink[i]].id = sink[i]
          /\ \A j \in 1..Len(sink) : i < j => sink[i] < sink[j]
    /\ \A i \in 1..Len(txPipe) :
          /\ \E k \in 1..Len(sendLog) :
                /\ sendLog[k].task = txPipe[i].id
                /\ sendLog[k].ok
                /\ \A j \in 1..Len(txPipe), m \in 1..Len(sendLog) :
                      (i < j /\ sendLog[m].task = txPipe[j].id) => k < m

\* Two records have reached the sink and two tasks the pipe.
C14_Witness ==
    /\ Len(sink) = 2
    /\ Len(txPipe) = 2
    /\ Len(wrote) = 2

\* C17 as stated: after Done no counter is incremented, no record is forwarded
\* to the sink and no task frame is written.
C17_FrozenAfterDone ==
    done => /\ ctr = atDone.ctr
            /\ Len(sink) = atDone.sink
            /\ Len(txPipe) = atDone.tx

\* C17 amended: after Done no task frame is written and nothing more is taken
\* from the plugin->agent pipe; the records forwarded after Done are records the
\* Receive() loop already held (in p.reader or in hand) when Done fired, and the
\* counters grow by no more than those records and the one task frame whose
\* write preceded Done.
C17_OnlyHeldAfterDone ==
    done => /\ Len(txPipe) = atDone.tx
            /\ rxPipe = atDone.rx
            /\ \A i \in 1..Len(sink) : i > atDone.sink => sink[i] \in atDone.held
            /\ ctr["txCnt"] - atDone.ctr["txCnt"]
                  <= Cardinality(atDone.held)
                     + (IF atDone.taskPc = "cntTx" THEN 1 ELSE 0)

\* After Done a record was forwarded to the sink and a counter was incremented.
C17_Witness ==
    /\ done
    /\ Len(sink) > atDone.sink
    /\ ctr["txCnt"] > atDone.ctr["txCnt"]

\* ---- termination of the long-lived tasks (ExitSpec) ----

\* C19: after the child process has exited, on its own or killed, Wait()
\* returns, the Task() loop exits and the Receive() loop exits, also when the
\* stream ended in the middle of a frame, and none of them runs again.
C19_TasksTerminate ==
    (childState = "exited")
        ~> [](waitPc = "returned" /\ taskPc = "returned" /\ recvPc = "returned")

\* All three have ended after a grace-period kill, the Task() loop on a failed
\* write.
C19_Witness ==
    /\ childState = "exited"
    /\ killSent
    /\ waitPc = "returned"
    /\ taskPc = "returned"
    /\ taskExit \in {"closed", "epipe"}
    /\ recvPc = "returned"

\* ---- properties of the framed protocol (ClientSpec, PeerSpec, WriterSpec) ----

\* C11: a ReceiveTask() call that read the prefix L from a stream holding the L
\* payload bytes has consumed exactly L+4 bytes, whether it returned a task, a
\* deserialization error or the error for an L beyond the reader's buffer.
C11_ConsumesWholeFrame ==
    \A i \in 1..Len(cLog) : cLog[i].held => cLog[i].consumed = cLog[i].len + 4

\* C13: round trip.  The k-th ReceiveTask() call yields the message of the k-th
\* task frame the Task() loop wrote, and the k-th record the supervisor decodes
\* is the k-th record given to SendRecord(), for every payload length.
C13_RoundTrip ==
    /\ \A k \in 1..Len(cLog) :
          /\ k <= Len(tSent)
          /\ cLog[k].msg = Unmarshal(tSent[k])
    /\ \A k \in 1..Len(supGot) :
          /\ k <= Len(rSent)
          /\ supGot[k] = Unmarshal(rSent[k])

RECURSIVE FramesOf(_)
\* the bytes of the frames of the payloads q, one after the other
FramesOf(q) ==
    IF q = <<>> THEN <<>>
    ELSE PutUint32(Len(Head(q))) \o Head(q) \o FramesOf(Tail(q))

IsPrefix(a, b) == Len(a) <= Len(b) /\ a = Take(b, Len(a))

\* C15: no two plugin-side callers of SendRecord, Flush and Close are in the
\* buffered writer at the same time, and what the writer has been given is the
\* frames of the records one after the other, prefix and payload together.
C15_WriterExclusive ==
    /\ \A c, d \in Callers : (c # d /\ InWriter(c)) => ~InWriter(d)
    /\ IsPrefix(wire \o cOut, FramesOf(rSent))

====
